---- MODULE Spec2Model ----
(***************************************************************************)
(* The two k-way merge solutions of the repository:                        *)
(*   src/solution/async-sorted-merge.js  (pipelined, popAsync + await)     *)
(*   src/solution/sync-sorted-merge.js   (blocking, pop)                   *)
(* over log sources honouring the pull protocol of src/lib/log-source.js:  *)
(* each pull returns the source's next entry, or false once drained.  A    *)
(* source here is the finite sequence of dates it yields; a source may in  *)
(* addition fail (throw / reject) on the pull that follows its last entry. *)
(* The async solution is run first, the sync solution afterwards on fresh  *)
(* sources with the same contents; the sync solution has no suspension     *)
(* point, so no step of the async run can fall inside it.                  *)
(***************************************************************************)
EXTENDS Integers, Sequences, FiniteSets, TLC

\* Bounds of the model.
MaxSources == 2
MaxEntries == 3
MaxDate == 2
MaxSyncPrints == 3

VARIABLES
    logSources,        \* the input: per source its dates and whether it fails at the end
    aPc,               \* async: control position
    aPopped,           \* async: per source, number of popAsync() calls made
    aAwaited,          \* async: per source, number of fetch results consumed by an await
    logEntryPromises,  \* async: the Map index -> promise
    aIdx,              \* async: index the seeding for..of loop is at
    aLogEntries,       \* async: the array logEntries
    aQueue,            \* async: the heap array of logEntryQueue
    aCur,              \* async: logSourceIndex of the drain iteration
    aSink,             \* async: calls made on the printer, in order
    sPc,               \* sync: control position
    sPopped,           \* sync: per source, number of pop() calls made
    sIdx,              \* sync: index the reduce is at
    sLogEntries,       \* sync: the array logEntries
    sQueue,            \* sync: the heap array of logEntryQueue
    sSink              \* sync: calls made on the printer, in order

aVars == <<aPc, aPopped, aAwaited, logEntryPromises, aIdx, aLogEntries, aQueue, aCur, aSink>>
sVars == <<sPc, sPopped, sIdx, sLogEntries, sQueue, sSink>>
vars == <<logSources, aVars, sVars>>

----------------------------------------------------------------------------
(* JavaScript values *)

Entry(d, i, k) == [kind |-> "entry", date |-> d, msg |-> <<i, k>>]
False == [kind |-> "false", date |-> 0, msg |-> <<0, 0>>]
Undefined == [kind |-> "undefined", date |-> 0, msg |-> <<0, 0>>]
Error == [kind |-> "error", date |-> 0, msg |-> <<0, 0>>]

N == Len(logSources)
Indices == 1..N

\* All sequences over S of length at most n.
BoundedSeq(S, n) == UNION {[1..m -> S] : m \in 0..n}

RECURSIVE SourceLists(_, _)
\* Lists of n sources holding at most budget entries in total.
SourceLists(n, budget) ==
    IF n = 0 THEN {<<>>}
    ELSE UNION {
        { <<[entries |-> e, fails |-> f]>> \o rest :
            rest \in SourceLists(n - 1, budget - Len(e)) } :
        e \in BoundedSeq(1..MaxDate, budget), f \in BOOLEAN }

\* The result of the n-th pull (n >= 1) on source i.
PullResult(i, n) ==
    LET src == logSources[i] IN
    IF n <= Len(src.entries) THEN Entry(src.entries[n], i, n)
    ELSE IF src.fails THEN Error
    ELSE False

----------------------------------------------------------------------------
(* PriorityQueue of @js-sdsl/priority-queue: a binary heap in an array,    *)
(* ordered by the comparator the solutions pass to it.                     *)

\* Mutant of Cmp: the operands of the subtraction swapped.
CmpReversed(a, b) ==
    IF a.logEntry.kind = "entry" /\ b.logEntry.kind = "entry"
    THEN [nan |-> FALSE, v |-> b.logEntry.date - a.logEntry.date]
    ELSE [nan |-> TRUE, v |-> 0]

\* (a, b) => a.logEntry.date - b.logEntry.date ; the date of false is
\* undefined and undefined - x is NaN.
Cmp(a, b) ==
    IF a.logEntry.kind = "entry" /\ b.logEntry.kind = "entry"
    THEN [nan |-> FALSE, v |-> a.logEntry.date - b.logEntry.date]
    ELSE [nan |-> TRUE, v |-> 0]

\* c <= 0, c >= 0, c > 0 : every comparison with NaN is false.
LeZero(c) == ~c.nan /\ c.v <= 0
GeZero(c) == ~c.nan /\ c.v >= 0
GtZero(c) == ~c.nan /\ c.v > 0

RECURSIVE PushUp(_, _, _)
\* _pushUp: positions are 0-based as in the library, the array is 1-based.
PushUp(q, pos, item) ==
    IF pos = 0 THEN [q EXCEPT ![1] = item]
    ELSE LET parent == (pos - 1) \div 2
             parentItem == q[parent + 1]
         IN IF LeZero(Cmp(parentItem, item))
            THEN [q EXCEPT ![pos + 1] = item]
            ELSE PushUp([q EXCEPT ![pos + 1] = parentItem], parent, item)

RECURSIVE PushDown(_, _, _, _)
\* _pushDown
PushDown(q, pos, halfLength, item) ==
    IF pos >= halfLength THEN [q EXCEPT ![pos + 1] = item]
    ELSE LET left == 2 * pos + 1
             right == left + 1
             useRight == right < Len(q) /\ GtZero(Cmp(q[left + 1], q[right + 1]))
             child == IF useRight THEN right ELSE left
             minItem == q[child + 1]
         IN IF GeZero(Cmp(minItem, item))
            THEN [q EXCEPT ![pos + 1] = item]
            ELSE PushDown([q EXCEPT ![pos + 1] = minItem], child, halfLength, item)

RECURSIVE Heapify(_, _)
\* the constructor's loop: for (parent = (length - 1) >> 1; parent >= 0; --parent)
Heapify(q, parent) ==
    IF parent < 0 THEN q
    ELSE Heapify(PushDown(q, parent, Len(q) \div 2, q[parent + 1]), parent - 1)

\* new PriorityQueue(logEntries, cmp)
NewPriorityQueue(entries) ==
    IF Len(entries) = 0 THEN entries
    ELSE Heapify(entries, (Len(entries) - 1) \div 2)

\* Mutant of QueuePush: the item is appended and not sifted up.
QueuePushNoSift(q, item) == Append(q, item)

\* logEntryQueue.push(item)
QueuePush(q, item) == PushUp(Append(q, item), Len(q), item)

\* the value logEntryQueue.pop() returns
QueueTop(q) == q[1]

\* the heap logEntryQueue.pop() leaves
QueuePop(q) ==
    LET last == q[Len(q)]
        rest == SubSeq(q, 1, Len(q) - 1)
    IN IF Len(rest) = 0 THEN rest
       ELSE PushDown(rest, 0, Len(rest) \div 2, last)

\* The comparator reads .date of logEntry: with an undefined logEntry it throws.
CompareThrows(q, item) ==
    /\ Len(q) > 0
    /\ \/ item.logEntry.kind = "undefined"
       \/ \E j \in 1..Len(q) : q[j].logEntry.kind = "undefined"

PrintCall(e) == [op |-> "print", entry |-> e]
DoneCall == [op |-> "done", entry |-> Undefined]

\* printer.print(logEntry)
Emit(sink, logEntry) == Append(sink, PrintCall(logEntry))

\* printer.done()
Complete(sink) == Append(sink, DoneCall)

----------------------------------------------------------------------------
Init ==
    /\ logSources \in UNION {SourceLists(n, MaxEntries) : n \in 0..MaxSources}
    /\ aPc = "init"
    /\ aPopped = [i \in 1..Len(logSources) |-> 0]
    /\ aAwaited = [i \in 1..Len(logSources) |-> 0]
    /\ logEntryPromises = [i \in 1..Len(logSources) |-> [state |-> "absent", value |-> Undefined]]
    /\ aIdx = 1
    /\ aLogEntries = <<>>
    /\ aQueue = <<>>
    /\ aCur = 0
    /\ aSink = <<>>
    /\ sPc = "reduce"
    /\ sPopped = [i \in 1..Len(logSources) |-> 0]
    /\ sIdx = 1
    /\ sLogEntries = <<>>
    /\ sQueue = <<>>
    /\ sSink = <<>>

----------------------------------------------------------------------------
(* LogSource (src/lib/log-source.js) *)

Pending == [state |-> "pending", value |-> Undefined]
Absent == [state |-> "absent", value |-> Undefined]

\* The promise popAsync() leaves once its delay has passed: it reads the
\* source's drained / last at that moment.
Settled(i) ==
    LET r == PullResult(i, aPopped[i]) IN
    IF r.kind = "error" THEN [state |-> "rejected", value |-> r]
    ELSE [state |-> "fulfilled", value |-> r]

\* Mutant of Resolve: the fetch of a drained source never settles.
ResolveNeverDrained(i) ==
    /\ logEntryPromises[i].state = "pending"
    /\ PullResult(i, aPopped[i]) # False
    /\ logEntryPromises' = [logEntryPromises EXCEPT ![i] = Settled(i)]
    /\ UNCHANGED <<logSources, aPc, aPopped, aAwaited, aIdx, aLogEntries, aQueue, aCur, aSink, sVars>>

\* The delay of the fetch held in the Map for source i passes.
Resolve(i) ==
    /\ logEntryPromises[i].state = "pending"
    /\ logEntryPromises' = [logEntryPromises EXCEPT ![i] = Settled(i)]
    /\ UNCHANGED <<logSources, aPc, aPopped, aAwaited, aIdx, aLogEntries, aQueue, aCur, aSink, sVars>>

----------------------------------------------------------------------------
(* async-sorted-merge.js *)

\* logSources.reduce(...): one popAsync() per source, stored under its index.
AsyncStart ==
    /\ aPc = "init"
    /\ aPopped' = [i \in Indices |-> aPopped[i] + 1]
    /\ logEntryPromises' = [i \in Indices |-> Pending]
    /\ aIdx' = 1
    /\ aPc' = IF N = 0 THEN "build" ELSE "seedAwait"
    /\ UNCHANGED <<logSources, aAwaited, aLogEntries, aQueue, aCur, aSink, sVars>>

\* logEntry === false
IsDrained(logEntry) == logEntry = False

\* Mutant of PopAsyncCalled: the promise stored is not one of a new popAsync().
PopAsyncNotCalled(popped, index) == popped

\* logSources[index].popAsync(): the source has been popped once more
PopAsyncCalled(popped, index) == [popped EXCEPT ![index] = @ + 1]

\* Mutant of MapDelete: the delete is forgotten.
MapDeleteNoop(map, index) == map

\* logEntryPromises.delete(index)
MapDelete(map, index) == [map EXCEPT ![index] = Absent]

\* logEntryPromises.set(index, logSources[index].popAsync()): the Map after it
MapSetFetch(map, index) == [map EXCEPT ![index] = Pending]

\* Mutant of AwaitThrows: the rejection is swallowed.
AwaitThrowsNever(promise) == FALSE

\* await of a rejected promise throws out of the async function
AwaitThrows(promise) == promise.state = "rejected"

\* One turn of the for..of loop: the await of the promise of aIdx resumes.
SeedAwait ==
    /\ aPc = "seedAwait"
    /\ logEntryPromises[aIdx].state \in {"fulfilled", "rejected"}
    /\ aAwaited' = [aAwaited EXCEPT ![aIdx] = @ + 1]
    /\ IF AwaitThrows(logEntryPromises[aIdx])
       THEN /\ aPc' = "aborted"
            /\ UNCHANGED <<aPopped, logEntryPromises, aIdx, aLogEntries>>
       ELSE LET logEntry == logEntryPromises[aIdx].value IN
            /\ IF IsDrained(logEntry)
               THEN /\ logEntryPromises' = MapDelete(logEntryPromises, aIdx)
                    /\ UNCHANGED <<aPopped, aLogEntries>>
               ELSE /\ aLogEntries' = Append(aLogEntries,
                                        [logEntry |-> logEntry, logSourceIndex |-> aIdx])
                    /\ aPopped' = PopAsyncCalled(aPopped, aIdx)
                    /\ logEntryPromises' = MapSetFetch(logEntryPromises, aIdx)
            /\ aIdx' = aIdx + 1
            /\ aPc' = IF aIdx = N THEN "build" ELSE "seedAwait"
    /\ UNCHANGED <<logSources, aQueue, aCur, aSink, sVars>>

\* new PriorityQueue(logEntries, ...)
AsyncBuild ==
    /\ aPc = "build"
    /\ aQueue' = NewPriorityQueue(aLogEntries)
    /\ aPc' = "loop"
    /\ UNCHANGED <<logSources, aPopped, aAwaited, logEntryPromises, aIdx, aLogEntries, aCur, aSink, sVars>>

\* Mutant of AsyncPopPrint: the next popAsync() of the source is started when
\* its entry is popped, before the fetch already in the Map has been awaited.
AsyncPopPrintPrefetch ==
    /\ aPc = "loop"
    /\ Len(aQueue) > 0
    /\ aSink' = Emit(aSink, QueueTop(aQueue).logEntry)
    /\ aCur' = QueueTop(aQueue).logSourceIndex
    /\ aQueue' = QueuePop(aQueue)
    /\ aPopped' = [aPopped EXCEPT ![QueueTop(aQueue).logSourceIndex] = @ + 1]
    /\ aPc' = "drainAwait"
    /\ UNCHANGED <<logSources, aAwaited, logEntryPromises, aIdx, aLogEntries, sVars>>

\* Mutant of AsyncPopPrint: the head is read and left in the queue.
AsyncPopPrintPeek ==
    /\ aPc = "loop"
    /\ Len(aQueue) > 0
    /\ aSink' = Emit(aSink, QueueTop(aQueue).logEntry)
    /\ aCur' = QueueTop(aQueue).logSourceIndex
    /\ aPc' = "drainAwait"
    /\ UNCHANGED <<logSources, aPopped, aAwaited, logEntryPromises, aIdx, aLogEntries, aQueue, sVars>>

\* Mutant of AsyncPopPrint: the loop goes on without the await.
AsyncPopPrintNoAwait ==
    /\ aPc = "loop"
    /\ Len(aQueue) > 0
    /\ aSink' = Emit(aSink, QueueTop(aQueue).logEntry)
    /\ aCur' = QueueTop(aQueue).logSourceIndex
    /\ aQueue' = QueuePop(aQueue)
    /\ aPc' = "loop"
    /\ UNCHANGED <<logSources, aPopped, aAwaited, logEntryPromises, aIdx, aLogEntries, sVars>>

\* while (logEntryQueue.length): pop the head and print it, then await the
\* promise stored for its source.
AsyncPopPrint ==
    /\ aPc = "loop"
    /\ Len(aQueue) > 0
    /\ aSink' = Emit(aSink, QueueTop(aQueue).logEntry)
    /\ aCur' = QueueTop(aQueue).logSourceIndex
    /\ aQueue' = QueuePop(aQueue)
    /\ aPc' = "drainAwait"
    /\ UNCHANGED <<logSources, aPopped, aAwaited, logEntryPromises, aIdx, aLogEntries, sVars>>

\* The await of logEntryPromises.get(logSourceIndex) resumes.
DrainAwait ==
    /\ aPc = "drainAwait"
    /\ logEntryPromises[aCur].state \in {"fulfilled", "rejected", "absent"}
    /\ aAwaited' = [aAwaited EXCEPT ![aCur] =
                        IF logEntryPromises[aCur].state = "absent" THEN @ ELSE @ + 1]
    /\ IF AwaitThrows(logEntryPromises[aCur])
       THEN /\ aPc' = "aborted"
            /\ UNCHANGED <<aPopped, logEntryPromises, aQueue>>
       ELSE LET nextLogEntry == logEntryPromises[aCur].value
                item == [logEntry |-> nextLogEntry, logSourceIndex |-> aCur]
            IN
            IF IsDrained(nextLogEntry)
            THEN /\ logEntryPromises' = MapDelete(logEntryPromises, aCur)
                 /\ aPc' = "loop"
                 /\ UNCHANGED <<aPopped, aQueue>>
            ELSE IF CompareThrows(aQueue, item)
            THEN /\ aPc' = "aborted"
                 /\ UNCHANGED <<aPopped, logEntryPromises, aQueue>>
            ELSE /\ aQueue' = QueuePush(aQueue, item)
                 /\ aPopped' = PopAsyncCalled(aPopped, aCur)
                 /\ logEntryPromises' = MapSetFetch(logEntryPromises, aCur)
                 /\ aPc' = "loop"
    /\ UNCHANGED <<logSources, aIdx, aLogEntries, aCur, aSink, sVars>>

\* Mutant of AsyncDone: the loop is left with one entry still queued.
AsyncDoneEarly ==
    /\ aPc = "loop"
    /\ Len(aQueue) <= 1
    /\ aSink' = Complete(aSink)
    /\ aPc' = "done"
    /\ UNCHANGED <<logSources, aPopped, aAwaited, logEntryPromises, aIdx, aLogEntries, aQueue, aCur, sVars>>

\* printer.done()
AsyncDone ==
    /\ aPc = "loop"
    /\ Len(aQueue) = 0
    /\ aSink' = Complete(aSink)
    /\ aPc' = "done"
    /\ UNCHANGED <<logSources, aPopped, aAwaited, logEntryPromises, aIdx, aLogEntries, aQueue, aCur, sVars>>

AsyncFinished == aPc \in {"done", "aborted"}

----------------------------------------------------------------------------
(* sync-sorted-merge.js *)

\* One turn of logSources.reduce(...): pop() the source, keep the result when
\* the test of line 44 passes.
SyncReduce ==
    /\ AsyncFinished
    /\ sPc = "reduce"
    /\ sIdx <= N
    /\ sPopped' = [sPopped EXCEPT ![sIdx] = @ + 1]
    /\ LET logEntry == PullResult(sIdx, sPopped[sIdx] + 1) IN
       IF logEntry.kind = "error"
       THEN /\ sPc' = "aborted"
            /\ UNCHANGED <<sIdx, sLogEntries>>
       ELSE /\ sLogEntries' = IF logEntry = False
                               THEN Append(sLogEntries,
                                        [logEntry |-> logEntry, logSourceIndex |-> sIdx])
                               ELSE sLogEntries
            /\ sIdx' = sIdx + 1
            /\ sPc' = "reduce"
    /\ UNCHANGED <<logSources, aVars, sQueue, sSink>>

\* new PriorityQueue(logEntries, ...)
SyncBuild ==
    /\ AsyncFinished
    /\ sPc = "reduce"
    /\ sIdx > N
    /\ sQueue' = NewPriorityQueue(sLogEntries)
    /\ sPc' = "loop"
    /\ UNCHANGED <<logSources, aVars, sPopped, sIdx, sLogEntries, sSink>>

\* One turn of while (logEntryQueue.length): pop the head, print it, pop()
\* its source, push the result when the test of line 66 passes.
SyncLoop ==
    /\ AsyncFinished
    /\ sPc = "loop"
    /\ Len(sQueue) > 0
    /\ Len(sSink) < MaxSyncPrints
    /\ LET top == QueueTop(sQueue)
           logSourceIndex == top.logSourceIndex
           nextLogEntry == PullResult(logSourceIndex, sPopped[logSourceIndex] + 1)
       IN
       /\ sSink' = Emit(sSink, top.logEntry)
       /\ sPopped' = [sPopped EXCEPT ![logSourceIndex] = @ + 1]
       /\ IF nextLogEntry.kind = "error"
          THEN /\ sPc' = "aborted"
               /\ sQueue' = QueuePop(sQueue)
          ELSE /\ sPc' = "loop"
               /\ sQueue' = IF nextLogEntry = False
                             THEN QueuePush(QueuePop(sQueue),
                                    [logEntry |-> nextLogEntry, logSourceIndex |-> logSourceIndex])
                             ELSE QueuePop(sQueue)
    /\ UNCHANGED <<logSources, aVars, sIdx, sLogEntries>>

\* printer.done()
SyncDone ==
    /\ AsyncFinished
    /\ sPc = "loop"
    /\ Len(sQueue) = 0
    /\ sSink' = Complete(sSink)
    /\ sPc' = "done"
    /\ UNCHANGED <<logSources, aVars, sPopped, sIdx, sLogEntries, sQueue>>

----------------------------------------------------------------------------
Next ==
    \/ \E i \in Indices : Resolve(i)
    \/ AsyncStart
    \/ SeedAwait
    \/ AsyncBuild
    \/ AsyncPopPrint
    \/ DrainAwait
    \/ AsyncDone
    \/ SyncReduce
    \/ SyncBuild
    \/ SyncLoop
    \/ SyncDone

Spec == Init /\ [][Next]_vars

\* The steps of the async run and of its fetches.
AsyncNext ==
    \/ \E i \in Indices : Resolve(i)
    \/ AsyncStart
    \/ SeedAwait
    \/ AsyncBuild
    \/ AsyncPopPrint
    \/ DrainAwait
    \/ AsyncDone

\* Every delay passes and the event loop resumes a function whose awaited
\* promise has settled.
FairSpec == Init /\ [][Next]_vars /\ WF_vars(AsyncNext)

\* The steps of the async run itself.
EngineNext ==
    \/ AsyncStart
    \/ SeedAwait
    \/ AsyncBuild
    \/ AsyncPopPrint
    \/ DrainAwait
    \/ AsyncDone

\* The delay of the fetch of source i passes, for i a source of the run.
ResolveAt(i) == i \in Indices /\ Resolve(i)

\* The event loop resumes the async function whenever the promise it awaits
\* has settled; the fetches of source 1 may never resolve, every other
\* fetch does.
HangSpec ==
    /\ Init /\ [][Next]_vars
    /\ WF_vars(EngineNext)
    /\ \A i \in 2..MaxSources : WF_vars(ResolveAt(i))

----------------------------------------------------------------------------
(* Vocabulary of the properties *)

IsPrint(call) == call.op = "print"
IsDone(call) == call.op = "done"
Prints(sink) == SelectSeq(sink, IsPrint)
Dones(sink) == SelectSeq(sink, IsDone)

\* Every source yields its dates in non-decreasing order.
SourcesSorted ==
    \A i \in Indices : \A j, k \in 1..Len(logSources[i].entries) :
        j < k => logSources[i].entries[j] <= logSources[i].entries[k]

NoSourceFails == \A i \in Indices : ~logSources[i].fails

\* The print calls of sink carry non-decreasing dates.
NonDecreasing(sink) ==
    \A j, k \in 1..Len(sink) :
        (j < k /\ IsPrint(sink[j]) /\ IsPrint(sink[k]))
            => sink[j].entry.date <= sink[k].entry.date

\* Number of print calls of sink that carry the k-th entry of source i.
TimesPrinted(sink, i, k) ==
    Cardinality({j \in 1..Len(sink) :
        IsPrint(sink[j]) /\ sink[j].entry = Entry(logSources[i].entries[k], i, k)})

RECURSIVE SumLen(_)
SumLen(i) == IF i = 0 THEN 0 ELSE Len(logSources[i].entries) + SumLen(i - 1)
TotalEntries == SumLen(N)

\* Every entry of every source is printed exactly once, and nothing else is.
EachEntryOnce(sink) ==
    /\ \A i \in Indices : \A k \in 1..Len(logSources[i].entries) :
            TimesPrinted(sink, i, k) = 1
    /\ Len(Prints(sink)) = TotalEntries

\* done() was called once and is the last call.
DoneOnceLast(sink) ==
    /\ Len(sink) > 0
    /\ IsDone(sink[Len(sink)])
    /\ Len(Dones(sink)) = 1

----------------------------------------------------------------------------
(* C1: pipelined engine, sources each sorted: whatever the order in which  *)
(* the fetches resolve, the entries passed to print are non-decreasing by  *)
(* date.                                                                   *)
C1_AsyncOutputSorted == SourcesSorted => NonDecreasing(aSink)

\* Two sources, one of them re-inserted into the heap, three entries of
\* differing dates printed, run complete.
C1_Witness ==
    /\ SourcesSorted
    /\ N = 2
    /\ aPc = "done"
    /\ Len(Prints(aSink)) = 3
    /\ \E j, k \in 1..Len(aSink) : j < k /\ IsPrint(aSink[j]) /\ IsPrint(aSink[k])
            /\ aSink[j].entry.date < aSink[k].entry.date
            /\ aSink[j].entry.msg[1] > aSink[k].entry.msg[1]

(* C2: pipelined engine: when the run completes every entry of every      *)
(* source has been printed exactly once.                                   *)
C2_AsyncComplete == aPc = "done" => EachEntryOnce(aSink)

C2_Witness ==
    /\ aPc = "done"
    /\ TotalEntries = 3
    /\ N = 2
    /\ \A i \in Indices : Len(logSources[i].entries) > 0

(* C3: blocking engine: every entry of every source is printed exactly    *)
(* once by the time the run completes.                                     *)
C3_SyncComplete == (NoSourceFails /\ sPc = "done") => EachEntryOnce(sSink)

(* C4: pipelined engine, any list of sources (none, or some drained on     *)
(* their first pull), every fetch resolving: the run eventually calls      *)
(* done(); done() is called at most once and no call follows it.           *)
C4_AsyncCompletes ==
    /\ NoSourceFails => <>(aPc = "done" /\ DoneOnceLast(aSink))
    /\ [](Len(Dones(aSink)) > 0 => DoneOnceLast(aSink))

\* A completed run over two sources, one of them drained on its first pull.
C4_Witness ==
    /\ aPc = "done"
    /\ DoneOnceLast(aSink)
    /\ N = 2
    /\ \E i \in Indices : Len(logSources[i].entries) = 0
    /\ Len(Prints(aSink)) >= 2

(* C5: blocking engine: the run terminates: no turn of its drain loop      *)
(* leaves the queue and the sources' next results as it found them; and    *)
(* done() is called once, as the last sink call.                           *)
C5_SyncTerminates ==
    /\ [][SyncLoop =>
            ~(/\ sQueue' = sQueue
              /\ \A i \in Indices :
                    PullResult(i, sPopped'[i] + 1) = PullResult(i, sPopped[i] + 1))]_vars
    /\ [](Len(Dones(sSink)) > 0 => DoneOnceLast(sSink))

(* C6: pipelined engine: for every source, at most one fetch is issued     *)
(* and not yet consumed by an await.                                       *)
Outstanding(i) == aPopped[i] - aAwaited[i]

C6_AtMostOneFetch == \A i \in Indices : Outstanding(i) \in {0, 1}

\* In the drain loop, a re-issued fetch of a source is outstanding while the
\* fetch of another source is too.
C6_Witness ==
    /\ aPc = "drainAwait"
    /\ N = 2
    /\ \A i \in Indices : Outstanding(i) = 1 /\ aPopped[i] >= 2

\* Some fetch of source i has resolved to false (consumed by an await or not).
ExhaustionResolved(i) ==
    \/ logEntryPromises[i].state = "fulfilled" /\ logEntryPromises[i].value = False
    \/ ~logSources[i].fails /\ aAwaited[i] > Len(logSources[i].entries)

\* An await of the engine has yielded false for source i.
ExhaustionConsumed(i) ==
    ~logSources[i].fails /\ aAwaited[i] > Len(logSources[i].entries)

InMap(i) == logEntryPromises[i].state # "absent"

\* Once a fetch of source i has resolved to false no popAsync() is called on i.
NoFetchAfterExhaustion ==
    [][\A i \in Indices : ExhaustionResolved(i) => aPopped'[i] = aPopped[i]]_vars

(* C7 as stated: once a fetch of a source has resolved to false, no        *)
(* popAsync() is called on that source and the index is absent from the    *)
(* Map from then on.                                                       *)
C7_Original ==
    /\ NoFetchAfterExhaustion
    /\ [](\A i \in Indices : ExhaustionResolved(i) => ~InMap(i))

(* C7 amended: once a fetch of a source has resolved to false, no          *)
(* popAsync() is called on that source; and once the await of that fetch   *)
(* has yielded false to the engine, the index is absent from the Map from  *)
(* then on.                                                                *)
C7_ExhaustionFinal ==
    /\ NoFetchAfterExhaustion
    /\ [](\A i \in Indices : ExhaustionConsumed(i) => ~InMap(i))

\* A source drained in the drain loop while the other source is still fetched.
C7_Witness ==
    /\ N = 2
    /\ \E i, j \in Indices :
        /\ ExhaustionConsumed(i) /\ aPopped[i] >= 2 /\ ~InMap(i)
        /\ InMap(j) /\ aPc = "drainAwait"

(* C8: blocking engine: once a pop() of a source has returned false, the   *)
(* engine never calls pop() on that source again.                          *)
C8_SyncExhaustionFinal ==
    [][\A i \in Indices :
        (~logSources[i].fails /\ sPopped[i] > Len(logSources[i].entries))
            => sPopped'[i] = sPopped[i]]_vars

\* The failing pull of some source has surfaced in the async run: an await
\* has consumed its rejected fetch.
AsyncFailureSurfaced ==
    \E i \in Indices : logSources[i].fails /\ aAwaited[i] > Len(logSources[i].entries)

\* The failing pull of some source has surfaced in the sync run: pop() threw.
SyncFailureSurfaced ==
    \E i \in Indices : logSources[i].fails /\ sPopped[i] > Len(logSources[i].entries)

(* C9: both engines: once a pull failure has surfaced to the engine, no    *)
(* print and no done call is made on the sink, and no further pull.        *)
C9_AbortOnFailure ==
    [][/\ AsyncFailureSurfaced => (aSink' = aSink /\ aPopped' = aPopped)
       /\ SyncFailureSurfaced => (sSink' = sSink /\ sPopped' = sPopped)]_vars

\* The async run aborted in its drain loop, after it had printed an entry,
\* with entries of the other source left unprinted.
C9_Witness ==
    /\ AsyncFailureSurfaced
    /\ aPc = "aborted"
    /\ Len(aSink) > 0
    /\ Len(aQueue) > 0

(* C10: on the same sources, the blocking and the pipelined engine make    *)
(* the same sequence of sink calls.                                        *)
C10_SameSinkCalls ==
    (NoSourceFails /\ aPc = "done" /\ sPc = "done") => sSink = aSink

(* C11 as stated: pipelined engine, sources whose dates are in any order   *)
(* within the source: the printed dates are non-decreasing.                *)
C11_Original == NonDecreasing(aSink)

(* C11 amended: the output of a completed run is non-decreasing by date    *)
(* for sources that each yield their dates in non-decreasing order, and    *)
(* only for those: a source that yields a date earlier than one it yielded *)
(* before makes the output decrease.                                       *)
C11_SortedIffSourcesSorted ==
    aPc = "done" => (NonDecreasing(aSink) <=> SourcesSorted)

\* A completed run over an unsorted source and a second source.
C11_Witness ==
    /\ aPc = "done"
    /\ N = 2
    /\ ~SourcesSorted
    /\ ~NonDecreasing(aSink)
    /\ \A i \in Indices : Len(logSources[i].entries) > 0

\* Every print call of sink carries an entry some source yields.
OnlySourceEntries(sink) ==
    \A j \in 1..Len(sink) :
        IsPrint(sink[j]) =>
            \E i \in Indices : \E k \in 1..Len(logSources[i].entries) :
                sink[j].entry = Entry(logSources[i].entries[k], i, k)

\* A done call of sink is its last call.
NothingAfterDone(sink) ==
    \A j \in 1..Len(sink) : IsDone(sink[j]) => j = Len(sink)

(* C12: both engines: every value passed to print is an entry some source  *)
(* yielded, never the exhaustion marker, and the sink receives print calls *)
(* followed by at most the one done call.                                  *)
C12_OnlyEntriesEmitted ==
    /\ OnlySourceEntries(aSink) /\ NothingAfterDone(aSink)
    /\ OnlySourceEntries(sSink) /\ NothingAfterDone(sSink)

\* The items of queue come from pairwise different sources.
OnePerSource(queue) ==
    /\ \A j, k \in 1..Len(queue) :
            j # k => queue[j].logSourceIndex # queue[k].logSourceIndex
    /\ Len(queue) <= N

(* C13: both engines: the queue holds at most one item per source index,   *)
(* so its length never exceeds the number of sources.                      *)
C13_OneRankedEntryPerSource == OnePerSource(aQueue) /\ OnePerSource(sQueue)

\* The async queue is full (one item per source) after an item was pushed
\* back in the drain loop.
C13_Witness ==
    /\ N = 2
    /\ aPc = "loop"
    /\ Len(aQueue) = N
    /\ \E i \in Indices : aAwaited[i] >= 2

\* The seeding loop is over: a loop head or an await of the drain loop.
AfterSeeding == aPc \in {"build", "loop", "drainAwait", "done"}

(* C14: pipelined engine, at every await and loop head after the seeding:  *)
(* a source that has not yet yielded false to an await of the engine has   *)
(* exactly one fetch outstanding, held in the Map under its index; a       *)
(* source that has is not in the Map and has no fetch outstanding.         *)
C14_ExactlyOneFetchWhileActive ==
    AfterSeeding =>
        \A i \in Indices :
            IF ExhaustionConsumed(i)
            THEN ~InMap(i) /\ Outstanding(i) = 0
            ELSE InMap(i) /\ Outstanding(i) = 1

\* At an await of the drain loop one source is drained and the other is
\* being fetched for the third time.
C14_Witness ==
    /\ N = 2
    /\ aPc = "drainAwait"
    /\ \E i, j \in Indices :
        /\ ExhaustionConsumed(i)
        /\ ~ExhaustionConsumed(j) /\ aPopped[j] = 3

\* The k-th entry of source i is in the queue.
Resident(i, k) ==
    /\ i \in Indices
    /\ k \in 1..Len(logSources[i].entries)
    /\ \E j \in 1..Len(aQueue) :
            aQueue[j].logEntry = Entry(logSources[i].entries[k], i, k)



\* The engine is at an await whose promise, of source i, has not settled.
AwaitingPending(i) ==
    \/ aPc = "seedAwait" /\ aIdx = i /\ logEntryPromises[i].state = "pending"
    \/ aPc = "drainAwait" /\ aCur = i /\ logEntryPromises[i].state = "pending"

\* No entry of a source other than source 1 is in the queue.
NoOtherResident ==
    \A j \in 1..Len(aQueue) : aQueue[j].logSourceIndex = 1

(* C15 as stated: a fetch of one source (here source 1) may never resolve, *)
(* all other fetches resolve: the entries of the other sources that are in *)
(* the queue are eventually printed, so that eventually none is left in    *)
(* the queue.                                                              *)
C15_Original == NoSourceFails => <>[]NoOtherResident

(* C15 amended: a fetch of one source (here source 1) may never resolve,   *)
(* all other fetches resolve: the entries of the other sources that are in *)
(* the queue are eventually printed unless the engine comes to await the   *)
(* unresolved fetch of source 1; while the engine awaits a fetch that has  *)
(* not resolved it prints nothing and the queue keeps its entries.         *)
C15_StallsAtAwait ==
    /\ NoSourceFails => <>[](NoOtherResident \/ AwaitingPending(1))
    /\ [][(\E i \in Indices : AwaitingPending(i))
            => (aSink' = aSink /\ aQueue' = aQueue)]_vars

\* The engine awaits the unresolved second fetch of source 1 in the drain
\* loop while an entry of source 2 is in the queue and the fetch of source 2
\* has resolved.
C15_Witness ==
    /\ N = 2
    /\ AwaitingPending(1)
    /\ aPc = "drainAwait"
    /\ Resident(2, 1)
    /\ logEntryPromises[2].state = "fulfilled"

\* The n-th pull result of source i; with lenient, a failing pull counts as
\* the source being drained.
RefPull(i, n, lenient) ==
    IF lenient /\ PullResult(i, n) = Error THEN False ELSE PullResult(i, n)

RECURSIVE RefSeed(_, _, _)
\* The queue items a seeding in index order collects from sources i..N:
\* the first result of each source that is not drained at once.
RefSeed(i, acc, lenient) ==
    IF i > N THEN acc
    ELSE RefSeed(i + 1,
            IF RefPull(i, 1, lenient) = False THEN acc
            ELSE Append(acc, [logEntry |-> RefPull(i, 1, lenient), logSourceIndex |-> i]),
            lenient)

RECURSIVE RefDrain(_, _, _, _)
\* The sink calls of a merge that pulls one result at a time: pop the head,
\* print it, pull the next result of its source, push it unless the source
\* is drained; stop at a pull that fails; done when the queue is empty.
RefDrain(queue, pulled, sink, lenient) ==
    IF Len(queue) = 0 THEN Append(sink, DoneCall)
    ELSE LET top == queue[1]
             i == top.logSourceIndex
             next == RefPull(i, pulled[i] + 1, lenient)
             printed == Append(sink, PrintCall(top.logEntry))
             rest == QueuePop(queue)
             pulled2 == [pulled EXCEPT ![i] = @ + 1]
         IN IF next = Error THEN printed
            ELSE IF next = False THEN RefDrain(rest, pulled2, printed, lenient)
            ELSE RefDrain(QueuePush(rest, [logEntry |-> next, logSourceIndex |-> i]),
                          pulled2, printed, lenient)

\* The sink calls of that merge over the sources.
RefSinkOf(lenient) ==
    IF \E i \in Indices : RefPull(i, 1, lenient) = Error THEN <<>>
    ELSE RefDrain(NewPriorityQueue(RefSeed(1, <<>>, lenient)),
                  [i \in Indices |-> 1], <<>>, lenient)

\* The sink calls the sources determine, whatever the timing of the fetches.
RefSink == RefSinkOf(FALSE)

\* The merged sequence of all the entries of the sources, no pull failing.
MergedSink == RefSinkOf(TRUE)

IsPrefix(s, t) == Len(s) <= Len(t) /\ s = SubSeq(t, 1, Len(s))

(* C16: pipelined engine: the sink calls are a function of the sources'    *)
(* pull results alone: in every state the calls made so far are a prefix   *)
(* of the one sequence the sources determine, and a finished run has made  *)
(* exactly that sequence, whatever the order in which the fetches          *)
(* resolved, entries of equal date included.                               *)
C16_OutputDetermined ==
    /\ IsPrefix(aSink, RefSink)
    /\ aPc \in {"done", "aborted"} => aSink = RefSink

\* A completed run over two sources, of two entries and of one, all three
\* of the same date.
C16_Witness ==
    /\ aPc = "done"
    /\ N = 2
    /\ Len(logSources[1].entries) = 2
    /\ Len(logSources[2].entries) = 1
    /\ \A i \in Indices : \A k \in 1..Len(logSources[i].entries) :
            logSources[i].entries[k] = 1

\* The print calls of sink that carry entries of source i, in order.
PrintsOfSource(sink, i) ==
    LET FromI(call) == IsPrint(call) /\ call.entry.msg[1] = i
    IN SelectSeq(sink, FromI)

(* C17: pipelined engine: the entries of a source are printed in the order *)
(* the source yielded them, whatever their dates: the j-th printed entry   *)
(* of a source is the j-th entry it yielded.                               *)
C17_SourceOrderKept ==
    \A i \in Indices :
        LET own == PrintsOfSource(aSink, i) IN
        \A j \in 1..Len(own) :
            /\ j <= Len(logSources[i].entries)
            /\ own[j].entry = Entry(logSources[i].entries[j], i, j)

\* Two entries of a source printed, the later one of the earlier date, with
\* an entry of the other source printed too.
C17_Witness ==
    /\ N = 2
    /\ \E i \in Indices :
        /\ Len(PrintsOfSource(aSink, i)) = 2
        /\ logSources[i].entries[1] > logSources[i].entries[2]
    /\ Len(Prints(aSink)) = 3

\* Some await of the engine has consumed a fetch result.
SomeAwaitDone == \E i \in Indices : aAwaited[i] > 0

(* C18: pipelined engine: the first popAsync() of every source is called   *)
(* before any fetch result is awaited; and the step in which an await      *)
(* yields the k-th entry of a source calls the popAsync() for its          *)
(* (k+1)-th result, so that the call precedes the print of the k-th entry. *)
C18_FetchIssuedEarly ==
    /\ []((aPc # "init" \/ SomeAwaitDone) => \A i \in Indices : aPopped[i] >= 1)
    /\ [][\A i \in Indices :
            (/\ aAwaited'[i] = aAwaited[i] + 1
             /\ aAwaited'[i] <= Len(logSources[i].entries))
                => aPopped'[i] = aAwaited'[i] + 1]_vars
    /\ [](\A i \in Indices : \A k \in 1..Len(logSources[i].entries) :
            TimesPrinted(aSink, i, k) > 0 => aPopped[i] >= k + 1)

\* The second entry of a source has been printed; its third fetch was issued
\* when the second was consumed.
C18_Witness ==
    /\ N = 2
    /\ \E i \in Indices :
        /\ Len(logSources[i].entries) >= 2
        /\ TimesPrinted(aSink, i, 2) > 0
        /\ aPopped[i] = 3
        /\ aAwaited[i] = 2

\* Source f fails on its second pull and no other pull fails.
SecondPullFails(f) ==
    /\ f \in Indices
    /\ logSources[f].fails
    /\ Len(logSources[f].entries) = 1
    /\ \A i \in Indices \ {f} : ~logSources[i].fails

\* The merged sequence up to and including the print of the first entry of
\* source f.
MergedUpTo(f) ==
    LET call == PrintCall(Entry(logSources[f].entries[1], f, 1))
        at == CHOOSE j \in 1..Len(MergedSink) : MergedSink[j] = call
    IN SubSeq(MergedSink, 1, at)

(* C19: pipelined engine, the second fetch of one source rejects and every *)
(* other fetch succeeds: the sink calls never go beyond the merged         *)
(* sequence up to the first entry of that source, the run aborts only once *)
(* that entry has been printed, with exactly that prefix printed, and      *)
(* done() is never called.                                                 *)
C19_AbortAfterFirstEntry ==
    \A f \in Indices :
        SecondPullFails(f) =>
            /\ IsPrefix(aSink, MergedUpTo(f))
            /\ aPc = "aborted" => aSink = MergedUpTo(f)
            /\ aPc # "done"

\* The run aborted after it printed an entry of the other source and then
\* the first entry of the failing source, an entry of the other source left
\* in the queue.
C19_Witness ==
    /\ N = 2
    /\ \E f \in Indices : SecondPullFails(f)
    /\ aPc = "aborted"
    /\ Len(aSink) = 2
    /\ Len(aQueue) = 1

\* The step appends a print call to the sink of the async run.
PrintStep ==
    /\ Len(aSink') = Len(aSink) + 1
    /\ IsPrint(aSink'[Len(aSink')])

(* C20: pipelined engine: the first fetches are consumed in index order    *)
(* and no entry is printed before the first fetch of every source has been *)
(* consumed; in the drain loop no entry is printed while the fetch of the  *)
(* source whose entry was printed just before has not been consumed.       *)
C20_AwaitBeforeEmit ==
    /\ [](\A i, j \in Indices : (i < j /\ aAwaited[j] >= 1) => aAwaited[i] >= 1)
    /\ [][PrintStep => \A i \in Indices : aAwaited[i] >= 1]_vars
    /\ [][(PrintStep /\ Len(aSink) > 0) =>
            LET last == aSink[Len(aSink)].entry
            IN aAwaited[last.msg[1]] >= last.msg[2] + 1]_vars

\* Three entries printed out of two sources, the engine waiting on the still
\* pending fetch of the source whose entry was printed last.
C20_Witness ==
    /\ N = 2
    /\ Len(Prints(aSink)) = 3
    /\ aPc = "drainAwait"
    /\ logEntryPromises[aCur].state = "pending"

====
